---- MODULE Spec2Model ----
(***************************************************************************)
(* A model of the BlackScholesPricer pricing engine: the closed-form       *)
(* solver, the binomial lattice, the Monte Carlo solver, the Greeks, the   *)
(* historical-volatility estimator and the data fetch that feeds them,     *)
(* and of the Streamlit pages that call it: the pricing pages and the      *)
(* login pages.                                                            *)
(*                                                                         *)
(* Floating-point numbers are modelled as fixed-point decimals with        *)
(* SCALE units per 1.0, together with the IEEE-754 special values the      *)
(* NumPy operations of the source produce instead of raising: NaN, +inf,   *)
(* -inf and the negative zero.                                             *)
(***************************************************************************)
EXTENDS Integers, Sequences, FiniteSets, TLC

----------------------------------------------------------------------------
(* Floating-point values                                                   *)

SCALE == 10 ^ 3

F(v) == [k |-> "fin", v |-> v]
NZero == [k |-> "nzero", v |-> 0]
NaN == [k |-> "nan", v |-> 0]
PInf == [k |-> "inf", v |-> 1]
NInf == [k |-> "inf", v |-> -1]

Abs(n) == IF n < 0 THEN -n ELSE n
Sgn(n) == IF n < 0 THEN -1 ELSE 1

IsNaN(x) == x.k = "nan"
IsInf(x) == x.k = "inf"
IsZero(x) == x.k = "nzero" \/ (x.k = "fin" /\ x.v = 0)
IsFinite(x) == x.k \in {"fin", "nzero"}
\* the sign bit: -1 for negative numbers, -0.0 and -inf
SignOf(x) == IF x.k = "nzero" THEN -1 ELSE Sgn(x.v)
\* a finite magnitude with a sign, keeping the sign of a zero result
Signed(s, m) == IF m = 0 THEN (IF s < 0 THEN NZero ELSE F(0)) ELSE F(s * m)
Inf(s) == IF s < 0 THEN NInf ELSE PInf

FNeg(x) ==
    IF IsNaN(x) THEN NaN
    ELSE IF IsInf(x) THEN Inf(-x.v)
    ELSE IF x.k = "nzero" THEN F(0)
    ELSE IF x.v = 0 THEN NZero
    ELSE F(-x.v)

FAdd(x, y) ==
    IF IsNaN(x) \/ IsNaN(y) THEN NaN
    ELSE IF IsInf(x) /\ IsInf(y) THEN (IF x.v = y.v THEN x ELSE NaN)
    ELSE IF IsInf(x) THEN x
    ELSE IF IsInf(y) THEN y
    ELSE IF x.k = "nzero" /\ y.k = "nzero" THEN NZero
    ELSE F(x.v + y.v)

FSub(x, y) == FAdd(x, FNeg(y))

FMul(x, y) ==
    IF IsNaN(x) \/ IsNaN(y) THEN NaN
    ELSE IF IsInf(x) \/ IsInf(y)
         THEN (IF IsZero(x) \/ IsZero(y) THEN NaN ELSE Inf(SignOf(x) * SignOf(y)))
    ELSE Signed(SignOf(x) * SignOf(y), (Abs(x.v) * Abs(y.v)) \div SCALE)

\* NumPy's float64 division: a zero divisor gives inf or nan, never an error
FDiv(x, y) ==
    IF IsNaN(x) \/ IsNaN(y) THEN NaN
    ELSE IF IsInf(x) THEN (IF IsInf(y) THEN NaN ELSE Inf(SignOf(x) * SignOf(y)))
    ELSE IF IsInf(y) THEN Signed(SignOf(x) * SignOf(y), 0)
    ELSE IF IsZero(y) THEN (IF IsZero(x) THEN NaN ELSE Inf(SignOf(x) * SignOf(y)))
    ELSE Signed(SignOf(x) * SignOf(y), (Abs(x.v) * SCALE) \div Abs(y.v))

\* comparison x < y and x <= y of two non-NaN values
FLt(x, y) ==
    IF IsNaN(x) \/ IsNaN(y) THEN FALSE
    ELSE IF IsInf(x) THEN x.v < 0 /\ ~(IsInf(y) /\ y.v < 0)
    ELSE IF IsInf(y) THEN y.v > 0
    ELSE x.v < y.v
FLe(x, y) == ~IsNaN(x) /\ ~IsNaN(y) /\ ~FLt(y, x)

\* np.maximum: NaN propagates
FMax(x, y) == IF IsNaN(x) \/ IsNaN(y) THEN NaN ELSE IF FLt(x, y) THEN y ELSE x

Half == F(SCALE \div 2)
One == F(SCALE)
Two == F(2 * SCALE)

\* integer square root, by Newton's iteration from above
RECURSIVE SqrtIter(_, _)
SqrtIter(n, x) ==
    LET y == (x + n \div x) \div 2 IN IF y >= x THEN x ELSE SqrtIter(n, y)
ISqrt(n) == IF n <= 0 THEN 0 ELSE SqrtIter(n, n)

\* np.sqrt: nan (and a warning) for a negative argument, never an error
FSqrt(x) ==
    IF IsNaN(x) THEN NaN
    ELSE IF x.k = "nzero" THEN NZero
    ELSE IF x.v < 0 THEN NaN
    ELSE IF IsInf(x) THEN PInf
    ELSE F(ISqrt(x.v * SCALE))

\* e^(x/SCALE) in SCALE units for x >= 0: halving above 1.0, then the series
RECURSIVE ExpSeries(_, _, _)
ExpSeries(x, term, n) ==
    IF term = 0 THEN 0 ELSE term + ExpSeries(x, (term * x) \div (n * SCALE), n + 1)
RECURSIVE ExpPos(_)
ExpPos(x) ==
    IF x > SCALE
    THEN LET h == ExpPos(x \div 2)
             o == IF x % 2 = 1 THEN ExpSeries(1, SCALE, 1) ELSE SCALE
         IN  (((h * h) \div SCALE) * o) \div SCALE
    ELSE ExpSeries(x, SCALE, 1)

\* arguments below -ExpFloor/SCALE give less than one unit
ExpFloor == 7 * SCALE

\* np.exp
FExp(x) ==
    IF IsNaN(x) THEN NaN
    ELSE IF IsInf(x) THEN (IF x.v > 0 THEN PInf ELSE F(0))
    ELSE IF x.v >= 0 THEN F(ExpPos(x.v))
    ELSE IF -x.v > ExpFloor THEN F(0)
    ELSE F((SCALE * SCALE) \div ExpPos(-x.v))

\* ln(m/SCALE) in SCALE units for SCALE <= m < 2*SCALE: 2*atanh((m-1)/(m+1))
RECURSIVE AtanhSeries(_, _, _)
AtanhSeries(z, pow, n) ==
    IF pow = 0 THEN 0 ELSE pow \div n + AtanhSeries(z, (((pow * z) \div SCALE) * z) \div SCALE, n + 2)
LnUnit(m) == LET z == ((m - SCALE) * SCALE) \div (m + SCALE) IN 2 * AtanhSeries(z, z, 1)
Ln2 == LnUnit(2 * SCALE - 1)
RECURSIVE LnPos(_)
LnPos(m) ==
    IF m >= 2 * SCALE THEN Ln2 + LnPos(m \div 2)
    ELSE IF m < SCALE THEN LnPos(2 * m) - Ln2
    ELSE LnUnit(m)

\* np.log: -inf for 0 and nan for a negative argument (warnings, no error)
FLog(x) ==
    IF IsNaN(x) THEN NaN
    ELSE IF IsZero(x) THEN NInf
    ELSE IF x.v < 0 THEN NaN
    ELSE IF IsInf(x) THEN PInf
    ELSE F(LnPos(x.v))

\* beyond TailCut/SCALE the normal density is below one unit
TailCut == 6 * SCALE

\* scipy.stats.norm.pdf: exp(-x^2/2)/sqrt(2 pi)
NormPdf(x) ==
    IF IsNaN(x) THEN NaN
    ELSE IF IsInf(x) \/ Abs(x.v) > TailCut THEN F(0)
    ELSE FMul(F((399 * SCALE) \div 1000), FExp(F(-((x.v * x.v) \div (2 * SCALE)))))

\* the upper tail 1 - Phi(a) for a >= 0 finite, in SCALE units
\* (Abramowitz and Stegun 26.2.17)
UpperTail(a) ==
    LET t == (SCALE * SCALE) \div (SCALE + (232 * a) \div 1000)
        h5 == 1330
        h4 == (h5 * t) \div SCALE - 1821
        h3 == (h4 * t) \div SCALE + 1781
        h2 == (h3 * t) \div SCALE - 357
        h1 == (h2 * t) \div SCALE + 319
        poly == (((h1 * t) \div SCALE) * SCALE) \div 1000
    IN  (NormPdf(F(a)).v * poly) \div SCALE

\* scipy.stats.norm.cdf
NormCdf(x) ==
    IF IsNaN(x) THEN NaN
    ELSE IF IsInf(x) THEN (IF x.v > 0 THEN F(SCALE) ELSE F(0))
    ELSE IF IsZero(x) THEN Half
    ELSE IF x.v > 0 THEN F(SCALE - UpperTail(x.v))
    ELSE F(UpperTail(-x.v))

\* x ** n for an integer n >= 0; pow(x, 0) is 1.0 for every x, NaN included
RECURSIVE FPow(_, _)
FPow(x, n) == IF n = 0 THEN F(SCALE) ELSE FMul(FPow(x, n - 1), x)

----------------------------------------------------------------------------
(* Outcomes of a call: a returned value or a raised exception             *)

Ret(x) == [kind |-> "return", exc |-> "none", val |-> x]
Raise(e) == [kind |-> "raise", exc |-> e, val |-> NaN]

----------------------------------------------------------------------------
(* models.py: the solvers.  S, K, T, r, sigma are Python floats, as the    *)
(* pages pass them (app.py:98-102, app.py:53); N and simulations are       *)
(* Python ints; option_type is a string.  A Python float divided by zero   *)
(* raises ZeroDivisionError; once a NumPy function has been applied the    *)
(* value is a float64, whose division by zero gives inf or nan.            *)

\* d1 and d2 of black_scholes and calculate_greeks (S / K is a Python float
\* division, the division by sigma * sqrt(T) is NumPy's)
D1(S, K, T, r, sigma) ==
    FDiv(FAdd(FLog(FDiv(S, K)), FMul(FAdd(r, FMul(Half, FMul(sigma, sigma))), T)),
         FMul(sigma, FSqrt(T)))
D2(S, K, T, r, sigma) == FSub(D1(S, K, T, r, sigma), FMul(sigma, FSqrt(T)))

\* K * exp(-r * T)
DiscK(K, T, r) == FMul(K, FExp(FMul(FNeg(r), T)))

\* black_scholes with the put priced from N(d2) and N(d1) instead of N(-d2)
\* and N(-d1)
black_scholes_PutSign(S, K, T, r, sigma, option_type) ==
    IF IsZero(K) THEN Raise("ZeroDivisionError")
    ELSE LET d1 == D1(S, K, T, r, sigma)
             d2 == D2(S, K, T, r, sigma)
         IN  IF option_type = "call"
             THEN Ret(FSub(FMul(S, NormCdf(d1)), FMul(DiscK(K, T, r), NormCdf(d2))))
             ELSE IF option_type = "put"
             THEN Ret(FSub(FMul(DiscK(K, T, r), NormCdf(d2)), FMul(S, NormCdf(d1))))
             ELSE Raise("ValueError")

black_scholes(S, K, T, r, sigma, option_type) ==
    IF IsZero(K) THEN Raise("ZeroDivisionError")
    ELSE LET d1 == D1(S, K, T, r, sigma)
             d2 == D2(S, K, T, r, sigma)
         IN  IF option_type = "call"
             THEN Ret(FSub(FMul(S, NormCdf(d1)), FMul(DiscK(K, T, r), NormCdf(d2))))
             ELSE IF option_type = "put"
             THEN Ret(FSub(FMul(DiscK(K, T, r), NormCdf(FNeg(d2))), FMul(S, NormCdf(FNeg(d1)))))
             ELSE Raise("ValueError")

\* the lattice parameters of binomial_tree, for N # 0
TreeDt(T, N) == FDiv(T, F(N * SCALE))
TreeU(T, sigma, N) == FExp(FMul(sigma, FSqrt(TreeDt(T, N))))
TreeD(T, sigma, N) == FDiv(One, TreeU(T, sigma, N))
TreeP(T, r, sigma, N) ==
    FDiv(FSub(FExp(FMul(r, TreeDt(T, N))), TreeD(T, sigma, N)),
         FSub(TreeU(T, sigma, N), TreeD(T, sigma, N)))

\* stock_prices[j, i] = S * (u ** (i-j)) * (d ** j)
StockPrice(S, T, sigma, N, j, i) ==
    FMul(FMul(S, FPow(TreeU(T, sigma, N), i - j)), FPow(TreeD(T, sigma, N), j))

\* the terminal layer: every option_type other than "call" is priced as a put
Payoff(ST, K, option_type) ==
    IF option_type = "call" THEN FMax(FSub(ST, K), F(0)) ELSE FMax(FSub(K, ST), F(0))

\* option_values[:, i] for rows 0..i, by backward induction from layer N
RECURSIVE OptionLayer(_, _, _, _, _, _, _, _)
OptionLayer(S, K, T, r, sigma, N, option_type, i) ==
    IF i = N
    THEN [j \in 0..N |-> Payoff(StockPrice(S, T, sigma, N, j, N), K, option_type)]
    ELSE LET next == OptionLayer(S, K, T, r, sigma, N, option_type, i + 1)
             p == TreeP(T, r, sigma, N)
             disc == FExp(FMul(FNeg(r), TreeDt(T, N)))
         IN  [j \in 0..i |->
                FMul(disc, FAdd(FMul(p, next[j]), FMul(FSub(One, p), next[j + 1])))]

binomial_tree(S, K, T, r, sigma, N, option_type) ==
    IF N = 0 THEN Raise("ZeroDivisionError")          \* dt = T / N
    ELSE IF N + 1 < 0 THEN Raise("ValueError")        \* np.zeros((N+1, N+1))
    ELSE IF N + 1 = 0 THEN Raise("IndexError")        \* stock_prices[:, N] of a 0x0 array
    ELSE Ret(OptionLayer(S, K, T, r, sigma, N, option_type, 0)[0])

\* the process-global generator behind np.random: its state is a residue;
\* seeding sets it, every draw advances it and yields a quantised normal
RngMod == 16
RngSeed(s) == s % RngMod
RngStep(g) == (5 * g + 3) % RngMod
RngNormal(g) == F((((g % 5) - 2) * SCALE) \div 2)

\* np.random.standard_normal(n) from state g, n >= 0: the samples and the
\* state the generator is left in
RECURSIVE RngAdvance(_, _)
RngAdvance(g, n) == IF n = 0 THEN g ELSE RngAdvance(RngStep(g), n - 1)
standard_normal(g, n) == [i \in 1..n |-> RngNormal(RngAdvance(g, i))]

\* np.random.seed(42) of monte_carlo
DefaultSeed == 42
\* monte_carlo without its seed call: the generator stays as it is found
MCSeed_Unseeded(g) == g
MCSeed(g) == RngSeed(DefaultSeed)

\* ST = S * exp((r - 0.5 * sigma ** 2) * T + sigma * sqrt(T) * Z) for one sample
TerminalPrice(S, T, r, sigma, z) ==
    FMul(S, FExp(FAdd(FMul(FSub(r, FMul(Half, FMul(sigma, sigma))), T),
                      FMul(FMul(sigma, FSqrt(T)), z))))

RECURSIVE FSum(_)
FSum(xs) == IF xs = <<>> THEN F(0) ELSE FAdd(FSum(SubSeq(xs, 1, Len(xs) - 1)), xs[Len(xs)])

\* np.mean: the sum over the count; 0/0 = nan (a warning) for an empty array
FMean(xs) == FDiv(FSum(xs), F(Len(xs) * SCALE))

\* the part of monte_carlo after the draw: exp(-r * T) * mean(payoff)
MCPrice(S, K, T, r, sigma, option_type, Z) ==
    FMul(FExp(FMul(FNeg(r), T)),
         FMean([i \in 1..Len(Z) |-> Payoff(TerminalPrice(S, T, r, sigma, Z[i]), K, option_type)]))

\* monte_carlo run on its own from generator state g: the outcome and the
\* state the generator is left in
monte_carlo(g, S, K, T, r, sigma, simulations, option_type) ==
    IF simulations < 0
    THEN [out |-> Raise("ValueError"), Z |-> <<>>, rng |-> MCSeed(g)]
    ELSE LET Z == standard_normal(MCSeed(g), simulations)
         IN  [out |-> Ret(MCPrice(S, K, T, r, sigma, option_type, Z)),
              Z |-> Z,
              rng |-> RngAdvance(MCSeed(g), simulations)]

----------------------------------------------------------------------------
(* models/greeks.py *)

calculate_greeks(S, K, T, r, sigma, option_type) ==
    IF IsZero(K) THEN Raise("ZeroDivisionError")
    ELSE LET d1 == D1(S, K, T, r, sigma)
             d2 == D2(S, K, T, r, sigma)
             sqrtT == FSqrt(T)
             decay == FNeg(FDiv(FMul(FMul(S, NormPdf(d1)), sigma), FMul(Two, sqrtT)))
             rK == FMul(FMul(r, K), FExp(FMul(FNeg(r), T)))
             KT == FMul(FMul(K, T), FExp(FMul(FNeg(r), T)))
         IN  Ret([delta |-> IF option_type = "call" THEN NormCdf(d1)
                            ELSE FSub(NormCdf(d1), One),
                  gamma |-> FDiv(NormPdf(d1), FMul(FMul(S, sigma), sqrtT)),
                  theta |-> IF option_type = "call"
                            THEN FSub(decay, FMul(rK, NormCdf(d2)))
                            ELSE FAdd(decay, FMul(rK, NormCdf(FNeg(d2)))),
                  vega  |-> FMul(FMul(S, sqrtT), NormPdf(d1)),
                  rho   |-> IF option_type = "call"
                            THEN FMul(KT, NormCdf(d2))
                            ELSE FNeg(FMul(KT, NormCdf(FNeg(d2))))])

----------------------------------------------------------------------------
(* models/volatility.py *)

\* np.log(Close / Close.shift(1)).dropna(): one log return per successive
\* pair of closing prices; the first row and every NaN row are dropped
RECURSIVE LogReturns(_)
LogReturns(closes) ==
    IF Len(closes) < 2 THEN <<>>
    ELSE LET n == Len(closes)
             x == FLog(FDiv(closes[n], closes[n - 1]))
             before == LogReturns(SubSeq(closes, 1, n - 1))
         IN  IF IsNaN(x) THEN before ELSE Append(before, x)

\* pandas Series.std(): the sample standard deviation (ddof = 1); NaN when
\* there are fewer than two values
SampleStd(xs) ==
    IF Len(xs) < 2 THEN NaN
    ELSE LET m == FMean(xs)
             sq == [i \in 1..Len(xs) |-> FMul(FSub(xs[i], m), FSub(xs[i], m))]
         IN  FSqrt(FDiv(FSum(sq), F((Len(xs) - 1) * SCALE)))

TradingDays == 252

\* the closing prices stand for stock.history(period)["Close"]
calculate_historical_volatility(closes) ==
    Ret(FMul(SampleStd(LogReturns(closes)), FSqrt(F(TradingDays * SCALE))))

----------------------------------------------------------------------------
(* app.py: get_data and the Fetch Data handler *)

YearDays == 365
RiskFreeRate == F((5 * SCALE) \div 100)

\* the strikes of the option chain of the nearest expiry
ChainStrikes == {F(90 * SCALE), F(100 * SCALE), F(110 * SCALE)}

\* K = min(strike_prices, key=lambda x: abs(x - S)), the lowest on a tie
ClosestStrike(S) ==
    CHOOSE k \in ChainStrikes :
        \A o \in ChainStrikes :
            \/ Abs(k.v - S.v) < Abs(o.v - S.v)
            \/ (Abs(k.v - S.v) = Abs(o.v - S.v) /\ k.v <= o.v)

\* T = max((expiry_date - today).days / 365, 0)
TimeToMaturity(days) ==
    LET years == FDiv(F(days * SCALE), F(YearDays * SCALE))
    IN  IF FLt(F(0), years) THEN years ELSE F(0)

None == [kind |-> "none"]
Some(x) == [kind |-> "some", val |-> x]

\* get_data: closes stands for the closing prices Yahoo returns, expiries
\* for stock.options as days from today to each expiry
get_data(closes, expiries) ==
    IF closes = <<>> THEN None
    ELSE IF expiries = <<>> THEN None
    ELSE LET S == closes[Len(closes)]
         IN  Some([S |-> S,
                   K |-> ClosestStrike(S),
                   T |-> TimeToMaturity(expiries[1]),
                   sigma |-> calculate_historical_volatility(closes).val,
                   r |-> RiskFreeRate])

----------------------------------------------------------------------------
(* The inputs the model draws *)

MaxSteps == 2
MaxSims == 2
MaxLen == 3
MaxMonths == 2
NumThreads == 2
MaxDepth == 3

Spots == {F(100 * SCALE), F(110 * SCALE)}
Strikes == {F(100 * SCALE)}
Maturities == {F(-(SCALE \div 2)), F(0), F(SCALE)}
Rates == {RiskFreeRate}
Vols == {F(-(SCALE \div 5)), F(0), F(SCALE \div 5)}
OptionTypes == {"call", "put", "straddle"}
StepCounts == (0 - 2)..MaxSteps
SimCounts == (0 - 1)..MaxSims
NoSeed == 0 - 1
UserSeeds == {7, 123}
SeedArgs == {NoSeed} \cup UserSeeds
Params == [S : Spots, K : Strikes, T : Maturities, r : Rates, sigma : Vols,
           option_type : OptionTypes]

RECURSIVE SeqsUpTo(_, _)
SeqsUpTo(A, n) ==
    IF n = 0 THEN {<<>>}
    ELSE LET shorter == SeqsUpTo(A, n - 1)
         IN  shorter \cup {Append(q, a) : q \in {x \in shorter : Len(x) = n - 1}, a \in A}
CloseSeries == SeqsUpTo(Spots, MaxLen)
ExpiryLists == {<<>>} \cup {<<30 * m>> : m \in (0 - 2)..MaxMonths}
Threads == 1..NumThreads

\* valid requests: S, K, T, sigma > 0 and a rate of either sign
ValidSpots == {F(90 * SCALE), F(100 * SCALE), F(110 * SCALE)}
ValidStrikes == {F(100 * SCALE), F(105 * SCALE)}
ValidMaturities == {F(SCALE \div 4), F(SCALE), F(2 * SCALE)}
ValidRates == {F(-(SCALE \div 50)), F(0), RiskFreeRate, F(SCALE \div 10)}
ValidVols == {F(SCALE \div 10), F(SCALE \div 5), F((2 * SCALE) \div 5)}
ValidParams == [S : ValidSpots, K : ValidStrikes, T : ValidMaturities, r : ValidRates,
                sigma : ValidVols, option_type : {"call", "put"}]

----------------------------------------------------------------------------
(* State *)

VARIABLES
    rng,        \* the state of the process-global NumPy generator
    params,     \* the option parameters and side of the request
    call,       \* the latest engine call: its function, inputs and outcome
    earlier,    \* an earlier monte_carlo call, kept to compare later ones with
    pc,         \* per thread, its position inside monte_carlo
    tn,         \* per thread, the simulations argument of its call
    tZ,         \* per thread, the samples it drew
    tout,       \* per thread, the outcome of its call
    market,     \* what Yahoo Finance returns: closing prices and expiries
    session,    \* st.session_state of app.py: data and greeks
    tree,       \* the locals of a running binomial_tree call
    page,       \* a pricing page: its widgets, session state and last script run
    auth        \* a login page: its session state and user table

vars == <<rng, params, call, earlier, pc, tn, tZ, tout, market, session, tree, page, auth>>

NoCall == [fn |-> "none"]

AllIdle == [t \in Threads |-> "idle"]
NoArgs == [t \in Threads |-> 0]
NoSamples == [t \in Threads |-> <<>>]
NoOutcomes == [t \in Threads |-> Raise("none")]
NoMarket == [closes |-> <<>>, expiries |-> <<>>]
EmptySession == [data |-> None, greeks |-> None]
NoTree == [pc |-> "idle"]
NoPage == [script |-> "none"]
NoAuth == [script |-> "none"]

\* a fresh process: the generator is seeded from the system's entropy, and
\* nothing has been called or fetched
Init ==
    /\ rng \in 0..(RngMod - 1)
    /\ params \in Params
    /\ call = NoCall
    /\ earlier = None
    /\ pc = AllIdle
    /\ tn = NoArgs
    /\ tZ = NoSamples
    /\ tout = NoOutcomes
    /\ market = NoMarket
    /\ session = EmptySession
    /\ tree = NoTree
    /\ page = NoPage
    /\ auth = NoAuth

threadVars == <<pc, tn, tZ, tout>>
fetchVars == <<market, session>>

----------------------------------------------------------------------------
(* Sequential calls of the engine on the request's parameters *)

CallBlackScholes ==
    /\ call' = [fn |-> "black_scholes", pre |-> rng, post |-> rng,
                out |-> black_scholes(params.S, params.K, params.T, params.r,
                                      params.sigma, params.option_type)]
    /\ UNCHANGED <<rng, params, earlier, threadVars, fetchVars, tree, page, auth>>

CallBinomialTree ==
    \E N \in StepCounts :
        /\ call' = [fn |-> "binomial_tree", N |-> N, pre |-> rng, post |-> rng,
                    out |-> binomial_tree(params.S, params.K, params.T, params.r,
                                          params.sigma, N, params.option_type)]
        /\ UNCHANGED <<rng, params, earlier, threadVars, fetchVars, tree, page, auth>>

CallGreeks ==
    /\ call' = [fn |-> "calculate_greeks", pre |-> rng, post |-> rng,
                out |-> calculate_greeks(params.S, params.K, params.T, params.r,
                                         params.sigma, params.option_type)]
    /\ UNCHANGED <<rng, params, earlier, threadVars, fetchVars, tree, page, auth>>

\* monte_carlo(S, K, T, r, sigma, simulations=n, option_type=...), with
\* seed=... added when the caller passes one: the signature has no such
\* parameter, so the call raises TypeError before the body runs
CallMonteCarlo ==
    \E n \in SimCounts, seed \in SeedArgs :
        LET run == monte_carlo(rng, params.S, params.K, params.T, params.r,
                               params.sigma, n, params.option_type)
        IN  /\ IF seed # NoSeed
               THEN /\ call' = [fn |-> "monte_carlo", n |-> n, seed |-> seed,
                                pre |-> rng, post |-> rng, Z |-> <<>>,
                                out |-> Raise("TypeError")]
                    /\ UNCHANGED rng
               ELSE /\ call' = [fn |-> "monte_carlo", n |-> n, seed |-> seed,
                                pre |-> rng, post |-> run.rng, Z |-> run.Z,
                                out |-> run.out]
                    /\ rng' = run.rng
            /\ UNCHANGED <<params, earlier, threadVars, fetchVars, tree, page, auth>>

NextEngine == CallBlackScholes \/ CallBinomialTree \/ CallGreeks \/ CallMonteCarlo

Spec == Init /\ [][NextEngine]_vars

----------------------------------------------------------------------------
(* Repeated monte_carlo calls among other users of np.random *)

\* one whole monte_carlo call; call keeps its path count and outcome and
\* whether the generator was away from its seeded state on entry, and any
\* call may become the earlier call that later ones are compared with
RepeatMonteCarlo ==
    \E n \in SimCounts, keep \in BOOLEAN :
        LET run == monte_carlo(rng, params.S, params.K, params.T, params.r,
                               params.sigma, n, params.option_type)
        IN  /\ rng' = run.rng
            /\ call' = [fn |-> "monte_carlo", n |-> n, out |-> run.out,
                        moved |-> rng # MCSeed(rng)]
            /\ earlier' = IF keep THEN Some([n |-> n, out |-> run.out]) ELSE earlier
            /\ UNCHANGED <<params, threadVars, fetchVars, tree, page, auth>>

\* any other code of the process calling np.random.seed(s)
OtherSeed ==
    \E s \in UserSeeds :
        /\ rng' = RngSeed(s)
        /\ UNCHANGED <<params, call, earlier, threadVars, fetchVars, tree, page, auth>>

\* any other code of the process drawing one sample
OtherDraw ==
    /\ rng' = RngStep(rng)
    /\ UNCHANGED <<params, call, earlier, threadVars, fetchVars, tree, page, auth>>

NextDet == RepeatMonteCarlo \/ OtherSeed \/ OtherDraw

SpecDet == Init /\ [][NextDet]_vars

----------------------------------------------------------------------------
(* monte_carlo called on several threads: each statement is one step *)

\* the requests the threads price
ThreadParams == {p \in Params : FLt(F(0), p.T) /\ FLt(F(0), p.sigma)}

InitThreads ==
    /\ rng = 0
    /\ params \in ThreadParams
    /\ call = NoCall
    /\ earlier = None
    /\ pc = AllIdle
    /\ tn = NoArgs
    /\ tZ = NoSamples
    /\ tout = NoOutcomes
    /\ market = NoMarket
    /\ session = EmptySession
    /\ tree = NoTree
    /\ page = NoPage
    /\ auth = NoAuth

\* thread t enters monte_carlo(..., simulations=n)
Enter(t) ==
    \E n \in SimCounts :
        /\ pc[t] = "idle"
        /\ pc' = [pc EXCEPT ![t] = "seed"]
        /\ tn' = [tn EXCEPT ![t] = n]
        /\ UNCHANGED <<rng, params, call, earlier, tZ, tout, fetchVars, tree, page, auth>>

\* np.random.seed(42)
SeedStep(t) ==
    /\ pc[t] = "seed"
    /\ rng' = MCSeed(rng)
    /\ pc' = [pc EXCEPT ![t] = "draw"]
    /\ UNCHANGED <<params, call, earlier, tn, tZ, tout, fetchVars, tree, page, auth>>

\* Z = np.random.standard_normal(simulations)
DrawStep(t) ==
    /\ pc[t] = "draw"
    /\ IF tn[t] < 0
       THEN /\ tout' = [tout EXCEPT ![t] = Raise("ValueError")]
            /\ pc' = [pc EXCEPT ![t] = "done"]
            /\ UNCHANGED <<rng, tZ>>
       ELSE /\ tZ' = [tZ EXCEPT ![t] = standard_normal(rng, tn[t])]
            /\ rng' = RngAdvance(rng, tn[t])
            /\ pc' = [pc EXCEPT ![t] = "average"]
            /\ UNCHANGED tout
    /\ UNCHANGED <<params, call, earlier, tn, fetchVars, tree, page, auth>>

\* ST, payoff and the discounted mean, on the thread's own samples
AverageStep(t) ==
    /\ pc[t] = "average"
    /\ tout' = [tout EXCEPT ![t] =
                    Ret(MCPrice(params.S, params.K, params.T, params.r, params.sigma,
                                params.option_type, tZ[t]))]
    /\ pc' = [pc EXCEPT ![t] = "done"]
    /\ UNCHANGED <<rng, params, call, earlier, tn, tZ, fetchVars, tree, page, auth>>

NextThreads == \E t \in Threads : Enter(t) \/ SeedStep(t) \/ DrawStep(t) \/ AverageStep(t)

SpecThreads == InitThreads /\ [][NextThreads]_vars

----------------------------------------------------------------------------
(* app.py: the Fetch Data click, and the estimator called on its own *)

\* the manual-input defaults of app.py
DefaultParams ==
    [S |-> F(100 * SCALE), K |-> F(100 * SCALE), T |-> F(SCALE), r |-> RiskFreeRate,
     sigma |-> F(SCALE \div 5), option_type |-> "call"]

InitFetch ==
    /\ rng = 0
    /\ params = DefaultParams
    /\ call = NoCall
    /\ earlier = None
    /\ pc = AllIdle
    /\ tn = NoArgs
    /\ tZ = NoSamples
    /\ tout = NoOutcomes
    /\ market \in [closes : CloseSeries, expiries : ExpiryLists]
    /\ session = EmptySession
    /\ tree = NoTree
    /\ page = NoPage
    /\ auth = NoAuth

\* if st.button("Fetch Data"): data = get_data(...); if data: store it and
\* compute the Greeks from it
FetchData ==
    \E option_type \in {"call", "put"} :
        LET data == get_data(market.closes, market.expiries)
        IN  /\ IF data = None
               THEN UNCHANGED session
               ELSE session' =
                        [data |-> data,
                         greeks |-> Some(calculate_greeks(data.val.S, data.val.K, data.val.T,
                                                          data.val.r, data.val.sigma,
                                                          option_type))]
            /\ call' = [fn |-> "get_data", days |-> market.expiries, out |-> data]
            /\ UNCHANGED <<rng, params, earlier, threadVars, market, tree, page, auth>>

\* volatility.calculate_historical_volatility(ticker) on the ticker's series
CallVolatility ==
    /\ call' = [fn |-> "calculate_historical_volatility", closes |-> market.closes,
                out |-> calculate_historical_volatility(market.closes)]
    /\ UNCHANGED <<rng, params, earlier, threadVars, market, session, tree, page, auth>>

NextFetch == FetchData \/ CallVolatility

SpecFetch == InitFetch /\ [][NextFetch]_vars

----------------------------------------------------------------------------------------------------------------------------------------
(* The closed-form functions on valid requests *)

InitValid ==
    /\ rng \in {0}
    /\ params \in ValidParams
    /\ call = NoCall
    /\ earlier = None
    /\ pc = AllIdle
    /\ tn = NoArgs
    /\ tZ = NoSamples
    /\ tout = NoOutcomes
    /\ market = NoMarket
    /\ session = EmptySession
    /\ tree = NoTree
    /\ page = NoPage
    /\ auth = NoAuth

SpecClosedForm == InitValid /\ [][CallBlackScholes \/ CallGreeks]_vars

----------------------------------------------------------------------------
(* binomial_tree statement by statement, on valid requests *)

\* np.zeros((N+1, N+1)), indexed [j, i]
Zeros(N) == [n \in (0..N) \X (0..N) |-> F(0)]

\* the layers in ascending order, range(N)
ForwardLayers(N) == [k \in 1..N |-> k - 1]
\* range(N-1, -1, -1): the layers in the order the induction visits them
BackwardLayers(N) == [k \in 1..N |-> N - k]

\* np.exp(-r * dt)
TreeDisc(T, r, N) == FExp(FMul(FNeg(r), TreeDt(T, N)))

\* the node value with the weights of the two successors exchanged
NodeValue_Swapped(p, disc, up, down) ==
    FMul(disc, FAdd(FMul(p, down), FMul(FSub(One, p), up)))
\* np.exp(-r * dt) * (p * option_values[j, i+1] + (1-p) * option_values[j+1, i+1])
NodeValue(p, disc, up, down) ==
    FMul(disc, FAdd(FMul(p, up), FMul(FSub(One, p), down)))

\* the layer-reduced induction the specification allows: one vector of the
\* N+1 terminal payoffs, in which layer i overwrites layer i+1 in place, for
\* j = 0..i in ascending order
RECURSIVE InPlaceRow(_, _, _, _, _)
InPlaceRow(V, p, disc, i, j) ==
    IF j > i THEN V
    ELSE InPlaceRow([V EXCEPT ![j] = FMul(disc, FAdd(FMul(p, V[j]),
                                                     FMul(FSub(One, p), V[j + 1])))],
                    p, disc, i, j + 1)
RECURSIVE InPlaceLayers(_, _, _, _)
InPlaceLayers(V, p, disc, i) ==
    IF i < 0 THEN V ELSE InPlaceLayers(InPlaceRow(V, p, disc, i, 0), p, disc, i - 1)
LayerReducedRoot(terminal, p, disc, N) == InPlaceLayers(terminal, p, disc, N - 1)[0]

InitLattice ==
    /\ rng \in {0}
    /\ params \in ValidParams
    /\ call = NoCall
    /\ earlier = None
    /\ pc = AllIdle
    /\ tn = NoArgs
    /\ tZ = NoSamples
    /\ tout = NoOutcomes
    /\ market = NoMarket
    /\ session = EmptySession
    /\ tree = NoTree
    /\ page = NoPage
    /\ auth = NoAuth

restVars == <<rng, params, call, earlier, threadVars, fetchVars, page, auth>>

\* the call is made: dt, u, d, p and the two zero arrays
TreeEnter ==
    /\ tree.pc = "idle"
    /\ \E N \in 1..MaxDepth :
        tree' = [pc |-> "prices", N |-> N, k |-> 1, j |-> 0,
                 p |-> TreeP(params.T, params.r, params.sigma, N),
                 stock_prices |-> Zeros(N), option_values |-> Zeros(N),
                 writes |-> <<>>, out |-> Raise("none")]
    /\ UNCHANGED restVars

\* the loop that fills stock_prices[j, i] for j <= i
BuildPrices ==
    /\ tree.pc = "prices"
    /\ tree' = [tree EXCEPT
            !.pc = "terminal",
            !.stock_prices = [n \in DOMAIN tree.stock_prices |->
                IF n[1] <= n[2]
                THEN StockPrice(params.S, params.T, params.sigma, tree.N, n[1], n[2])
                ELSE F(0)]]
    /\ UNCHANGED restVars

\* option_values[:, N] = np.maximum(...): one statement writes the whole
\* terminal column
FillTerminal ==
    /\ tree.pc = "terminal"
    /\ tree' = [tree EXCEPT
            !.pc = "backward",
            !.option_values = [n \in DOMAIN tree.option_values |->
                IF n[2] = tree.N
                THEN Payoff(tree.stock_prices[n], params.K, params.option_type)
                ELSE tree.option_values[n]],
            !.writes = [a \in 1..(tree.N + 1) |-> <<a - 1, tree.N>>]]
    /\ UNCHANGED restVars

\* one pass of the inner loop body: node (j, i) of the layer in turn
BackwardNode ==
    /\ tree.pc = "backward"
    /\ LET i == BackwardLayers(tree.N)[tree.k]
           j == tree.j
           value == NodeValue(tree.p, TreeDisc(params.T, params.r, tree.N),
                              tree.option_values[<<j, i + 1>>],
                              tree.option_values[<<j + 1, i + 1>>])
       IN  tree' = [tree EXCEPT
                !.option_values[<<j, i>>] = value,
                !.writes = Append(tree.writes, <<j, i>>),
                !.j = IF j < i THEN j + 1 ELSE 0,
                !.k = IF j < i THEN tree.k ELSE tree.k + 1,
                !.pc = IF j = i /\ tree.k = tree.N THEN "return" ELSE "backward"]
    /\ UNCHANGED restVars

\* return option_values[0, 0]
TreeReturn ==
    /\ tree.pc = "return"
    /\ tree' = [tree EXCEPT !.pc = "done", !.out = Ret(tree.option_values[<<0, 0>>])]
    /\ UNCHANGED restVars

SpecLattice ==
    InitLattice /\ [][TreeEnter \/ BuildPrices \/ FillTerminal \/ BackwardNode \/ TreeReturn]_vars

----------------------------------------------------------------------------
(* The pricing pages: app.py, main.py and pages/yf_data.py.  Streamlit runs *)
(* a page's script from top to bottom on every interaction; only           *)
(* st.session_state and the widgets' values outlive a run.  A run records  *)
(* which solver it invoked and how Python bound the arguments; the number  *)
(* the solver computes is only displayed and is not kept.  The pages call  *)
(* the solvers as models.option_pricing.*, which have the names and        *)
(* signatures of models.py; yf_data.py fetches with fetch_data.get_data,   *)
(* taken here to be the get_data of the other two pages.                   *)

\* Python values that reach a parameter declared after sigma
PyInt(n) == [t |-> "int", i |-> n, s |-> ""]
PyStr(x) == [t |-> "str", i |-> 0, s |-> x]

TreeDefaultSteps == 100
MCDefaultPaths == 10000
PageSteps == 100
PagePaths == 10000

\* str.lower() on the labels of the option type widgets
Lower(label) == IF label = "Call" THEN "call" ELSE IF label = "Put" THEN "put" ELSE label

\* the parameters a solver declares after sigma, with their defaults
Signature(fn) ==
    IF fn = "binomial_tree"
    THEN <<[name |-> "N", default |-> PyInt(TreeDefaultSteps)],
           [name |-> "option_type", default |-> PyStr("call")]>>
    ELSE IF fn = "monte_carlo"
    THEN <<[name |-> "simulations", default |-> PyInt(MCDefaultPaths)],
           [name |-> "option_type", default |-> PyStr("call")]>>
    ELSE <<[name |-> "option_type", default |-> PyStr("call")]>>

\* Python's binding of a call fn(S, K, T, r, sigma, *pos, **kw): positional
\* arguments fill the parameters in the order of the signature, keywords go
\* by name, the rest take their defaults
Bind(fn, pos, kw) ==
    LET sig == Signature(fn)
    IN  [k \in 1..Len(sig) |->
            [name |-> sig[k].name,
             val |-> IF k <= Len(pos) THEN pos[k]
                     ELSE IF sig[k].name \in DOMAIN kw THEN kw[sig[k].name]
                     ELSE sig[k].default]]

\* a run, or a solver call, that ended without an exception
Showed == [kind |-> "return", exc |-> "none"]

\* what the body of the solver does with the bound arguments: T / N and
\* np.random.standard_normal(simulations) need a number
Invoke(fn, bound) ==
    IF fn \in {"binomial_tree", "monte_carlo"} /\ bound[1].val.t # "int"
    THEN Raise("TypeError")
    ELSE Showed

\* the generator after n draws, n large: RngStep permutes the residues, so
\* a generator is back in its state after RngPeriod(g) draws
RngPeriod(g) == CHOOSE k \in 1..RngMod : RngAdvance(g, k) = g
RngSkip(g, n) == RngAdvance(g, n % RngPeriod(g))

\* the global generator after the call: monte_carlo seeds it before it draws
RngAfter(g, fn, bound) ==
    IF fn # "monte_carlo" THEN g
    ELSE IF bound[1].val.t # "int" THEN MCSeed(g)
    ELSE RngSkip(MCSeed(g), bound[1].val.i)

PricingModels == {"Black-Scholes", "Binomial Tree", "Monte Carlo"}
OptionLabels == {"Call", "Put"}

\* the solver behind a label of the pricing model widget (app.py:119-124)
SolverOf(model) ==
    IF model = "Black-Scholes" THEN "black_scholes"
    ELSE IF model = "Binomial Tree" THEN "binomial_tree"
    ELSE "monte_carlo"

\* the defaults of the manual number inputs
ManualDefaults ==
    [S |-> F(100 * SCALE), K |-> F(100 * SCALE), T |-> F(SCALE), r |-> RiskFreeRate,
     sigma |-> F(SCALE \div 5)]

\* what Yahoo Finance may return to a fetch
PageMarkets ==
    [closes : {<<>>, <<F(100 * SCALE), F(110 * SCALE)>>,
               <<F(110 * SCALE), F(100 * SCALE), F(110 * SCALE)>>},
     expiries : {<<>>, <<30>>, <<60>>}]

\* a script run: the button clicked, the widgets' values, the solver calls
\* made and how the run ended
NoRun == [click |-> "none", model |-> "Black-Scholes", side |-> "Call", calls |-> <<>>,
          out |-> Showed]
Run(click, model, side, calls, out) ==
    [click |-> click, model |-> model, side |-> side, calls |-> calls, out |-> out]

\* the dispatch of app.py (119-124) and main.py (85-90): one solver call
\* with the five parameters args, N or simulations and the side by keyword
KeywordDispatch(model, side, args) ==
    LET fn == SolverOf(model)
        pos == IF fn = "black_scholes" THEN <<PyStr(Lower(side))>> ELSE <<>>
        kw == IF fn = "binomial_tree"
              THEN [N |-> PyInt(PageSteps), option_type |-> PyStr(Lower(side))]
              ELSE IF fn = "monte_carlo"
              THEN [simulations |-> PyInt(PagePaths), option_type |-> PyStr(Lower(side))]
              ELSE <<>>
    IN  [fn |-> fn, args |-> args, bound |-> Bind(fn, pos, kw)]

\* the dispatch of pages/yf_data.py (51-65): the side is the sixth
\* positional argument of every solver
PositionalDispatch(model, side, args) ==
    [fn |-> SolverOf(model), args |-> args,
     bound |-> Bind(SolverOf(model), <<PyStr(Lower(side))>>, <<>>)]

\* the five parameters of a fetched dict
ArgsOf(data) ==
    [S |-> data.val.S, K |-> data.val.K, T |-> data.val.T, r |-> data.val.r,
     sigma |-> data.val.sigma]

InitPages ==
    /\ rng \in {0}
    /\ params = DefaultParams
    /\ call = NoCall
    /\ earlier = None
    /\ pc = AllIdle
    /\ tn = NoArgs
    /\ tZ = NoSamples
    /\ tout = NoOutcomes
    /\ market = NoMarket
    /\ session = EmptySession
    /\ tree = NoTree
    /\ page \in {[script |-> sc, data_source |-> "Fetch from Yahoo Finance",
                  fetched |-> None, run |-> NoRun] : sc \in {"app", "main", "yf"}}
    /\ auth = NoAuth

\* app.py and main.py: the user changes the data source; the script runs
\* with no button clicked
ChooseSource ==
    /\ page.script \in {"app", "main"}
    /\ \E source \in {"Fetch from Yahoo Finance", "Enter Manually"} :
        /\ source # page.data_source
        /\ page' = [page EXCEPT !.data_source = source, !.run = NoRun]
    /\ UNCHANGED <<rng, market, session, params, call, earlier, threadVars, tree, auth>>

\* app.py, Fetch Data clicked (65-94): a fetched dict is kept in
\* st.session_state.data, with its Greeks
AppFetchData ==
    /\ page.script = "app"
    /\ page.data_source = "Fetch from Yahoo Finance"
    /\ \E m \in PageMarkets, side \in OptionLabels :
        LET data == get_data(m.closes, m.expiries)
        IN  /\ market' = m
            /\ IF data = None
               THEN session' = session
               ELSE session' =
                        [data |-> data,
                         greeks |-> Some(calculate_greeks(data.val.S, data.val.K, data.val.T,
                                                          data.val.r, data.val.sigma,
                                                          Lower(side)))]
            /\ page' = [page EXCEPT
                    !.fetched = IF data = None THEN page.fetched ELSE data,
                    !.run = Run("Fetch Data", "Black-Scholes", side, <<>>, Showed)]
    /\ UNCHANGED <<rng, params, call, earlier, threadVars, tree, auth>>

\* app.py, Calculate Price clicked (107-124): the parameters are the dict in
\* st.session_state.data if the source is Yahoo and a dict is there, else
\* the manual inputs or, where those are not on the page, their defaults
AppCalculate ==
    /\ page.script = "app"
    /\ \E model \in PricingModels, side \in OptionLabels,
          typed \in {ManualDefaults, [ManualDefaults EXCEPT !.S = F(110 * SCALE)]} :
        LET args == IF page.data_source = "Fetch from Yahoo Finance" /\ session.data # None
                    THEN ArgsOf(session.data)
                    ELSE IF page.data_source = "Enter Manually" THEN typed
                    ELSE ManualDefaults
            c == KeywordDispatch(model, side, args)
        IN  /\ page' = [page EXCEPT
                    !.run = Run("Calculate Price", model, side, <<c>>, Invoke(c.fn, c.bound))]
            /\ rng' = RngAfter(rng, c.fn, c.bound)
    /\ UNCHANGED <<market, session, params, call, earlier, threadVars, tree, auth>>

\* main.py, Fetch Data clicked (56-66): the fetched dict is the script's
\* variable data, shown and gone when the run ends
MainFetchData ==
    /\ page.script = "main"
    /\ page.data_source = "Fetch from Yahoo Finance"
    /\ \E m \in PageMarkets :
        LET data == get_data(m.closes, m.expiries)
        IN  /\ market' = m
            /\ page' = [page EXCEPT
                    !.fetched = IF data = None THEN page.fetched ELSE data,
                    !.run = Run("Fetch Data", "Black-Scholes", "Call", <<>>, Showed)]
    /\ UNCHANGED <<rng, session, params, call, earlier, threadVars, tree, auth>>

\* main.py, Calculate Price clicked (80-92): in this run the Fetch Data
\* button is not clicked, so the script has no variable data; with the
\* source Yahoo the manual inputs are not run either and S is unbound
MainCalculate ==
    /\ page.script = "main"
    /\ \E model \in PricingModels, side \in OptionLabels,
          typed \in {ManualDefaults, [ManualDefaults EXCEPT !.S = F(110 * SCALE)]} :
        IF page.data_source = "Fetch from Yahoo Finance"
        THEN /\ page' = [page EXCEPT
                    !.run = Run("Calculate Price", model, side, <<>>, Raise("NameError"))]
             /\ rng' = rng
        ELSE LET c == KeywordDispatch(model, side, typed)
             IN  /\ page' = [page EXCEPT
                        !.run = Run("Calculate Price", model, side, <<c>>,
                                    Invoke(c.fn, c.bound))]
                 /\ rng' = RngAfter(rng, c.fn, c.bound)
    /\ UNCHANGED <<market, session, params, call, earlier, threadVars, tree, auth>>

\* pages/yf_data.py, Fetch Data clicked (31-65): the result of the fetch is
\* stored, and a dict is priced at once with the selected model
YfFetchData ==
    /\ page.script = "yf"
    /\ \E m \in PageMarkets, model \in PricingModels, side \in OptionLabels :
        LET data == get_data(m.closes, m.expiries)
            c == PositionalDispatch(model, side, ArgsOf(data))
        IN  /\ market' = m
            /\ session' = [session EXCEPT !.data = data]
            /\ IF data = None
               THEN /\ page' = [page EXCEPT
                            !.run = Run("Fetch Data", model, side, <<>>, Showed)]
                    /\ rng' = rng
               ELSE /\ page' = [page EXCEPT
                            !.fetched = data,
                            !.run = Run("Fetch Data", model, side, <<c>>,
                                        Invoke(c.fn, c.bound))]
                    /\ rng' = RngAfter(rng, c.fn, c.bound)
    /\ UNCHANGED <<params, call, earlier, threadVars, tree, auth>>

SpecPages ==
    InitPages /\ [][\/ ChooseSource
                   \/ AppFetchData
                   \/ AppCalculate
                   \/ MainFetchData
                   \/ MainCalculate
                   \/ YfFetchData]_vars

----------------------------------------------------------------------------
(* The login pages: pages/my_portfolio.py and utils/login.py (login_ui).   *)
(* auth.run is the latest run of the script: the button clicked, what was  *)
(* typed, and logged_in and the user table as the run found them.          *)

\* hashlib.sha256(password.encode()).hexdigest(): a digest, determined by
\* the password and different from it
hash_password(password) == [sha256 |-> password]
verify_password(stored_password, provided_password) ==
    stored_password = hash_password(provided_password)

\* what the user may type into the text inputs
Typed ==
    [username : {"", "user", "alice", "bob"}, password : {"", "password", "secret"},
     confirm : {"", "password", "secret"}]

\* my_portfolio.py starts with users_db = {} and logged_in = False;
\* login_ui has one account, written into its condition (login.py:22), and
\* starts with logged_in = False and the modal shown
InitLogin ==
    /\ rng \in {0}
    /\ params = DefaultParams
    /\ call = NoCall
    /\ earlier = None
    /\ pc = AllIdle
    /\ tn = NoArgs
    /\ tZ = NoSamples
    /\ tout = NoOutcomes
    /\ market = NoMarket
    /\ session = EmptySession
    /\ tree = NoTree
    /\ page = NoPage
    /\ auth \in {[script |-> "my_portfolio", logged_in |-> FALSE, show_login_modal |-> TRUE,
                  users_db |-> <<>>, run |-> [click |-> "none"]],
                 [script |-> "login_ui", logged_in |-> FALSE, show_login_modal |-> TRUE,
                  users_db |-> [user |-> hash_password("password")],
                  run |-> [click |-> "none"]]}

\* my_portfolio.py, Login clicked (41-48); every run of the script starts
\* with users_db = {} (line 9)
PortfolioLogin ==
    /\ auth.script = "my_portfolio"
    /\ ~auth.logged_in
    /\ \E t \in Typed :
        LET users_db == <<>>
            ok == /\ t.username \in DOMAIN users_db
                  /\ verify_password(users_db[t.username], t.password)
        IN  auth' = [auth EXCEPT
                !.logged_in = IF ok THEN TRUE ELSE auth.logged_in,
                !.users_db = users_db,
                !.run = [click |-> "Login", typed |-> t,
                         before |-> [logged_in |-> auth.logged_in, users_db |-> users_db]]]
    /\ UNCHANGED <<rng, params, call, earlier, threadVars, fetchVars, tree, page>>

\* my_portfolio.py, Create Account clicked (57-66)
PortfolioCreateAccount ==
    /\ auth.script = "my_portfolio"
    /\ ~auth.logged_in
    /\ \E t \in Typed :
        LET users_db == <<>>
            ok == t.username \notin DOMAIN users_db /\ t.password = t.confirm
        IN  auth' = [auth EXCEPT
                !.logged_in = IF ok THEN TRUE ELSE auth.logged_in,
                !.users_db = IF ok
                             THEN [u \in DOMAIN users_db \cup {t.username} |->
                                      IF u = t.username THEN hash_password(t.password)
                                      ELSE users_db[u]]
                             ELSE users_db,
                !.run = [click |-> "Create Account", typed |-> t,
                         before |-> [logged_in |-> auth.logged_in, users_db |-> users_db]]]
    /\ UNCHANGED <<rng, params, call, earlier, threadVars, fetchVars, tree, page>>

\* my_portfolio.py run while logged in (st.rerun() and every later run):
\* users_db = {} again, and the table is shown (67-72)
PortfolioShowTable ==
    /\ auth.script = "my_portfolio"
    /\ auth.logged_in
    /\ auth' = [auth EXCEPT !.users_db = <<>>, !.run = [click |-> "none"]]
    /\ UNCHANGED <<rng, params, call, earlier, threadVars, fetchVars, tree, page>>

\* login_ui, Login clicked (17-29)
UiLogin ==
    /\ auth.script = "login_ui"
    /\ auth.show_login_modal
    /\ \E t \in Typed :
        LET ok == t.username = "user" /\ t.password = "password"
        IN  auth' = [auth EXCEPT
                !.logged_in = IF ok THEN TRUE ELSE auth.logged_in,
                !.show_login_modal = IF ok THEN FALSE ELSE auth.show_login_modal,
                !.run = [click |-> "Login", typed |-> t,
                         before |-> [logged_in |-> auth.logged_in,
                                     users_db |-> auth.users_db]]]
    /\ UNCHANGED <<rng, params, call, earlier, threadVars, fetchVars, tree, page>>

\* login_ui, Create Account clicked (31-44): a mismatch of the passwords is
\* reported (36-37) and the click is handled all the same
UiCreateAccount ==
    /\ auth.script = "login_ui"
    /\ auth.show_login_modal
    /\ \E t \in Typed :
        auth' = [auth EXCEPT
            !.logged_in = TRUE,
            !.show_login_modal = FALSE,
            !.run = [click |-> "Create Account", typed |-> t,
                     before |-> [logged_in |-> auth.logged_in, users_db |-> auth.users_db]]]
    /\ UNCHANGED <<rng, params, call, earlier, threadVars, fetchVars, tree, page>>

\* login_ui, Continue without Account chosen (46-51)
UiGuest ==
    /\ auth.script = "login_ui"
    /\ auth.show_login_modal
    /\ auth' = [auth EXCEPT !.logged_in = FALSE, !.show_login_modal = FALSE,
                            !.run = [click |-> "none"]]
    /\ UNCHANGED <<rng, params, call, earlier, threadVars, fetchVars, tree, page>>

SpecLogin ==
    InitLogin /\ [][\/ PortfolioLogin
                   \/ PortfolioCreateAccount
                   \/ PortfolioShowTable
                   \/ UiLogin
                   \/ UiCreateAccount
                   \/ UiGuest]_vars

----------------
(* Properties *)

Solvers == {"black_scholes", "binomial_tree", "monte_carlo", "calculate_greeks"}
Sides == {"call", "put"}
NonPositive(x) == ~IsNaN(x) /\ FLe(x, F(0))

\* C1 (SpecDet): monte_carlo is deterministic. A call returns the outcome
\* that any earlier call with the same arguments returned, whatever
\* monte_carlo calls with other path counts, np.random.seed calls and draws
\* of other code ran before or between the two.
C1_Determinism ==
    (call.fn = "monte_carlo" /\ earlier # None /\ earlier.val.n = call.n)
        => call.out = earlier.val.out

\* a second call with the path count of an earlier one, entered with the
\* generator away from its seeded state, returning a positive finite price
C1_Witness ==
    /\ call.fn = "monte_carlo"
    /\ earlier # None
    /\ earlier.val.n = call.n
    /\ call.moved
    /\ call.n >= 1
    /\ call.out.kind = "return"
    /\ call.out.val.k = "fin"
    /\ call.out.val.v > 0

\* the outcome of monte_carlo(..., simulations=n) run with no other thread
Alone(n) ==
    monte_carlo(0, params.S, params.K, params.T, params.r, params.sigma, n,
                params.option_type).out

\* C2 (SpecThreads): concurrent monte_carlo calls need no locking. Under
\* every interleaving of the threads' steps, a thread that has finished its
\* call holds the outcome the same call gives when it runs alone.
C2_ThreadsIsolated == \A t \in Threads : pc[t] = "done" => tout[t] = Alone(tn[t])

\* C3 (Spec): no solver mutates shared state. When a call of black_scholes,
\* binomial_tree, monte_carlo or calculate_greeks has returned, the global
\* generator is in the state it was in when the call was made.
C3_NoSharedMutation ==
    (call.fn \in Solvers /\ call.out.kind = "return") => call.post = call.pre

\* C4 (Spec): an option side that is neither call nor put is an error in
\* every component: the call raises and returns nothing.
C4_InvalidSideIsError ==
    (call.fn \in Solvers /\ params.option_type \notin Sides) => call.out.kind = "raise"

\* C5 (Spec): black_scholes and calculate_greeks raise for every input with
\* T <= 0 or sigma <= 0.
C5_DomainGuard ==
    (/\ call.fn \in {"black_scholes", "calculate_greeks"}
     /\ (NonPositive(params.T) \/ NonPositive(params.sigma)))
        => call.out.kind = "raise"

\* C6 (Spec): binomial_tree with N <= 0 and monte_carlo with
\* simulations <= 0 raise and return no price.
C6_ConfigurationGuard ==
    /\ (call.fn = "binomial_tree" /\ call.N <= 0) => call.out.kind = "raise"
    /\ (call.fn = "monte_carlo" /\ call.seed = NoSeed /\ call.n <= 0)
            => call.out.kind = "raise"

\* C7 (SpecFetch): the time-to-maturity is never clamped. The T stored by a
\* fetch, from which the Greeks are computed, is the fetched expiry's
\* distance in days over 365, also when the expiry has passed.
C7_NoClamping ==
    session.data # None =>
        session.data.val.T = FDiv(F(market.expiries[1] * SCALE), F(YearDays * SCALE))

\* C8 (SpecFetch): calculate_historical_volatility raises on a series of
\* 0 or 1 closing prices.
C8_TooLittleData ==
    (call.fn = "calculate_historical_volatility" /\ Len(call.closes) < 2)
        => call.out.kind = "raise"

\* C9 (SpecFetch): on exactly 2 positive closing prices
\* calculate_historical_volatility returns a finite non-negative number.
C9_TwoPoints ==
    (call.fn = "calculate_historical_volatility" /\ Len(call.closes) = 2)
        => (/\ call.out.kind = "return"
            /\ IsFinite(call.out.val)
            /\ call.out.val.v >= 0)

\* C10 (Spec): the seed is an overridable input of monte_carlo. A call with
\* simulations >= 0 returns, and its samples are the draws of the seed the
\* caller passed, or of the default seed when the caller passed none.
C10_SeedOverridable ==
    (call.fn = "monte_carlo" /\ call.n >= 0) =>
        /\ call.out.kind = "return"
        /\ call.Z = standard_normal(
                        RngSeed(IF call.seed = NoSeed THEN DefaultSeed ELSE call.seed),
                        call.n)

\* C11 (Spec): the degenerate lattice is an error. When the up-factor equals
\* the down-factor (sigma = 0), so that the denominator u - d of the
\* risk-neutral probability is zero, binomial_tree raises and returns no
\* price.
C11_DegenerateLattice ==
    (/\ call.fn = "binomial_tree"
     /\ call.N >= 1
     /\ IsZero(params.sigma)
     /\ TreeU(params.T, params.sigma, call.N) = One
     /\ TreeD(params.T, params.sigma, call.N) = One)
        => call.out.kind = "raise"

\* C12 (SpecClosedForm): put-call parity. For every valid request (S, K, T,
\* sigma > 0, a rate of either sign) the price black_scholes returns for the
\* call minus the price it returns for the put is S - K * exp(-r * T), up to
\* the rounding of the two products in each price (one unit each).
C12_PutCallParity ==
    (call.fn = "black_scholes" /\ call.out.kind = "return") =>
        LET side == params.option_type
            other == black_scholes(params.S, params.K, params.T, params.r, params.sigma,
                                   IF side = "call" THEN "put" ELSE "call")
            c == IF side = "call" THEN call.out.val ELSE other.val
            q == IF side = "put" THEN call.out.val ELSE other.val
            forward == FSub(params.S, FMul(params.K, FExp(FMul(FNeg(params.r), params.T))))
        IN  /\ other.kind = "return"
            /\ IsFinite(c) /\ IsFinite(q)
            /\ Abs((c.v - q.v) - forward.v) <= 2

\* a put has been priced at a negative rate, where the discounted strike
\* exceeds the strike, and is worth more than the call
C12_Witness ==
    /\ call.fn = "black_scholes"
    /\ call.out.kind = "return"
    /\ params.option_type = "put"
    /\ params.r.v < 0
    /\ FLt(black_scholes(params.S, params.K, params.T, params.r, params.sigma, "call").val,
           call.out.val)

\* C14 (SpecLattice): strict backward order. tree.writes lists the nodes of
\* option_values in the order binomial_tree has written them. The terminal
\* layer N is written first and the layers never ascend; no node is written
\* twice; when a node (j, i) below the terminal layer is written, both
\* successors (j, i+1) and (j+1, i+1) have been written before it. When the
\* call has returned, every node's value is the discounted expectation of
\* the values its successors hold at the end, the last node written is the
\* root (0, 0), and the value returned is the root's.
C14_BackwardOrder ==
    tree.pc \in {"backward", "return", "done"} =>
        LET w == tree.writes
            N == tree.N
            disc == TreeDisc(params.T, params.r, N)
        IN  /\ \A a \in 1..(N + 1) : w[a][2] = N
            /\ \A a \in 1..(Len(w) - 1) : w[a + 1][2] <= w[a][2]
            /\ \A a, b \in 1..Len(w) : a # b => w[a] # w[b]
            /\ \A a \in 1..Len(w) :
                    w[a][2] < N =>
                        \E b, c \in 1..(a - 1) :
                            /\ w[b] = <<w[a][1], w[a][2] + 1>>
                            /\ w[c] = <<w[a][1] + 1, w[a][2] + 1>>
            /\ tree.pc = "done" =>
                    /\ w[Len(w)] = <<0, 0>>
                    /\ tree.out = Ret(tree.option_values[<<0, 0>>])
                    /\ \A i \in 0..(N - 1) : \A j \in 0..i :
                            tree.option_values[<<j, i>>] =
                                NodeValue(tree.p, disc,
                                          tree.option_values[<<j, i + 1>>],
                                          tree.option_values[<<j + 1, i + 1>>])

\* a lattice of at least two layers below the terminal one has been solved
\* to a positive price
C14_Witness ==
    /\ tree.pc = "done"
    /\ tree.N >= 2
    /\ Len(tree.writes) = ((tree.N + 1) * (tree.N + 2)) \div 2
    /\ FLt(F(0), tree.out.val)

\* C15 (SpecLattice): layer reduction does not change the result. For every
\* N >= 1 and every terminal payoff vector the call produces, the root of
\* the induction that keeps one vector and overwrites it in place for
\* j = 0..i is the value binomial_tree returns from its two-dimensional
\* array.
C15_LayerReduction ==
    tree.pc = "done" =>
        tree.out = Ret(LayerReducedRoot([j \in 0..tree.N |-> tree.option_values[<<j, tree.N>>]],
                                        tree.p, TreeDisc(params.T, params.r, tree.N), tree.N))

\* a solved lattice of at least two layers whose terminal payoffs are
\* neither all zero nor all positive
C15_Witness ==
    /\ tree.pc = "done"
    /\ tree.N >= 2
    /\ \E j \in 0..tree.N : IsZero(tree.option_values[<<j, tree.N>>])
    /\ \E j \in 0..tree.N : FLt(F(0), tree.option_values[<<j, tree.N>>])
    /\ ~IsZero(tree.out.val)

\* C17 (SpecLattice): lattice values are never negative. For every valid
\* request (S, K, T, sigma > 0, any rate) and N >= 1, every value
\* binomial_tree has written at a node (j, i) with j <= i, and the price it
\* returns, is at least 0.
C17_NonNegativeValues ==
    tree.pc \in {"backward", "return", "done"} =>
        /\ \A a \in 1..Len(tree.writes) : FLe(F(0), tree.option_values[tree.writes[a]])
        /\ tree.pc = "done" => FLe(F(0), tree.out.val)

\* C16 (SpecPages): model and side dispatch. A run of a page that prices
\* (Calculate Price on app.py and main.py with the parameters bound, Fetch
\* Data with a fetched dict on pages/yf_data.py) calls exactly one solver,
\* the one of the selected model; the solver's option_type is the selected
\* side, and its N or simulations is an integer.
C16_Dispatch ==
    LET run == page.run
        prices == \/ run.click = "Calculate Price" /\ run.out.exc # "NameError"
                  \/ page.script = "yf" /\ run.click = "Fetch Data" /\ session.data # None
    IN  prices =>
            /\ Len(run.calls) = 1
            /\ run.calls[1].fn = SolverOf(run.model)
            /\ \A k \in DOMAIN run.calls[1].bound :
                    LET b == run.calls[1].bound[k]
                    IN  IF b.name = "option_type"
                        THEN b.val = PyStr(Lower(run.side))
                        ELSE b.val.t = "int"

\* C18 (SpecPages): fetched parameters survive until pricing. Once a fetch
\* has succeeded on app.py or main.py, a Calculate Price run with the data
\* source still Yahoo Finance calls a solver with the S, K, T, r, sigma of
\* the latest successful fetch; it does not end in a NameError and does not
\* price the manual defaults.
C18_FetchedSurvives ==
    (/\ page.script \in {"app", "main"}
     /\ page.run.click = "Calculate Price"
     /\ page.data_source = "Fetch from Yahoo Finance"
     /\ page.fetched # None)
        => /\ page.run.out.exc # "NameError"
           /\ Len(page.run.calls) = 1
           /\ page.run.calls[1].args = ArgsOf(page.fetched)

\* C19 (SpecLogin): the login state is only set by a valid action. After a
\* Login or Create Account click, logged_in has become true only if the
\* click was a Login with a registered username and the password of its
\* stored hash, or a Create Account with an unregistered username and a
\* password equal to its confirmation; after any other click logged_in and
\* the user table are as the click found them.
C19_ValidLoginOnly ==
    auth.run.click \in {"Login", "Create Account"} =>
        LET r == auth.run
            registered == r.typed.username \in DOMAIN r.before.users_db
            valid == \/ /\ r.click = "Login"
                        /\ registered
                        /\ verify_password(r.before.users_db[r.typed.username],
                                           r.typed.password)
                     \/ /\ r.click = "Create Account"
                        /\ ~registered
                        /\ r.typed.password = r.typed.confirm
        IN  /\ (auth.logged_in /\ ~r.before.logged_in) => valid
            /\ ~valid => /\ auth.logged_in = r.before.logged_in
                         /\ auth.users_db = r.before.users_db

====
